---- MODULE Spec2Model ----
(***************************************************************************)
(* BER Writer and Reader of node-asn1-ber (lib/ber/writer.js and           *)
(* lib/ber/reader.js), modelled as state machines over byte buffers.       *)
(*                                                                         *)
(* Representation choices, all of them data encodings and not behaviour:   *)
(*  - a Buffer is a sequence of runs <<byte, count>> in normal form (no    *)
(*    empty run, no two adjacent runs of the same byte), so a buffer of    *)
(*    16 MiB is a short value and equal contents are equal values;         *)
(*  - a JavaScript number that may exceed 32 bits is a pair <<hi, lo>>     *)
(*    standing for hi * 2^24 + lo with 0 <= lo < 2^24;                      *)
(*  - a JavaScript value handed to a typed entry point is a pair           *)
(*    <<kind, payload>>, kind being what typeof and the code's type        *)
(*    checks distinguish.                                                  *)
(***************************************************************************)
EXTENDS Integers, Sequences, FiniteSets, TLC

VARIABLES w, r, op, ret, arg, pre

vars == <<w, r, op, ret, arg, pre>>

Min(a, b) == IF a < b THEN a ELSE b

Max(a, b) == IF a > b THEN a ELSE b

(***************************************************************************)
(* Tag registry (lib/ber/types.js) and the values the code compares with.  *)
(***************************************************************************)
Boolean == 1

Integer == 2

BitString == 3

OctetString == 4

Null == 5

OID == 6

Enumeration == 10

Sequence == 16

Constructor == 32

ShortFormMax == 127

OneOctetMax == 255

TwoOctetMax == 65535

ThreeOctetMax == 16777215

DefaultSize == 1024

DefaultGrowthFactor == 8

(***************************************************************************)
(* Numbers: <<hi, lo>> is hi * Limb + lo.                                   *)
(***************************************************************************)
Limb == 256 * 65536

NumOf(n) == <<n \div Limb, n % Limb>>

\* the value as a model integer; used only where the code has already
\* compared the number with a buffer size
NumToInt(x) == x[1] * Limb + x[2]

NumLess(x, y) == x[1] < y[1] \/ (x[1] = y[1] /\ x[2] < y[2])

\* x & 0xff : ToInt32 keeps the value modulo 2^32, so its low octet
NumLowByte(x) == x[2] % 256

\* Math.floor(x / 0x100)
NumFloorDiv256(x) == <<x[1] \div 256, (x[1] % 256) * 65536 + (x[2] \div 256)>>

\* x * 256 + b, b in -128 .. 255
NumShiftAdd(x, b) ==
    LET lo == (x[2] % 65536) * 256 + b
        hi == x[1] * 256 + (x[2] \div 65536)
    IN  IF lo < 0 THEN <<hi - 1, lo + Limb>> ELSE <<hi, lo>>

\* Number.isSafeInteger: |x| <= 2^53 - 1, and 2^53 = 2^29 * Limb
NumIsSafe(x) ==
    /\ x[1] >= -(32 * Limb)
    /\ x[1] <= 32 * Limb - 1
    /\ ~(x[1] = -(32 * Limb) /\ x[2] = 0)

\* n / d and n % d for a number n >= 0 and a divisor 0 < d < 128
NumDiv(x, d) == <<x[1] \div d, ((x[1] % d) * Limb + x[2]) \div d>>

NumMod(x, d) == ((x[1] % d) * Limb + x[2]) % d

\* x + y, and x * m for a small factor 0 <= m < 128
NumPlus(x, y) == <<x[1] + y[1] + ((x[2] + y[2]) \div Limb), (x[2] + y[2]) % Limb>>

NumTimes(x, m) == <<x[1] * m + ((x[2] * m) \div Limb), (x[2] * m) % Limb>>

(***************************************************************************)
(* Buffers (Node's Buffer, a Uint8Array).                                  *)
(***************************************************************************)
RECURSIVE BufLen(_)
BufLen(buf) == IF buf = <<>> THEN 0 ELSE buf[1][2] + BufLen(Tail(buf))

RECURSIVE Norm(_)
Norm(runs) ==
    IF runs = <<>> THEN <<>>
    ELSE IF runs[1][2] <= 0 THEN Norm(Tail(runs))
    ELSE LET rest == Norm(Tail(runs))
         IN  IF rest # <<>> /\ rest[1][1] = runs[1][1]
             THEN <<(<<runs[1][1], runs[1][2] + rest[1][2]>>)>> \o Tail(rest)
             ELSE <<runs[1]>> \o rest

\* Buffer.alloc(n): n zero octets
Alloc(n) == Norm(<<(<<0, n>>)>>)

\* the buffer holding the octets of a sequence
RECURSIVE Runs(_)
Runs(s) == IF s = <<>> THEN <<>> ELSE <<(<<s[1], 1>>)>> \o Runs(Tail(s))

FromSeq(s) == Norm(Runs(s))

\* the octets [a, b) of buf, both ends clamped to the buffer (subarray, slice)
RECURSIVE Slice(_, _, _)
Slice(buf, a, b) ==
    IF buf = <<>> \/ b <= 0 \/ b <= a THEN <<>>
    ELSE LET n == buf[1][2]
             lo == Max(a, 0)
         IN  IF lo >= n THEN Slice(Tail(buf), a - n, b - n)
             ELSE Norm(<<(<<buf[1][1], Min(b, n) - lo>>)>>
                       \o Slice(Tail(buf), 0, b - n))

\* buf[i] : the octet at index i, or "undefined" (here -1) outside the buffer
RECURSIVE ByteAt(_, _)
ByteAt(buf, i) ==
    IF buf = <<>> \/ i < 0 THEN -1
    ELSE IF i < buf[1][2] THEN buf[1][1]
    ELSE ByteAt(Tail(buf), i - buf[1][2])

\* buf[i] & 0xff : undefined & 0xff is 0
ByteAnd255(buf, i) == IF ByteAt(buf, i) = -1 THEN 0 ELSE ByteAt(buf, i)

\* the octets of src written over buf from index at, as many as fit
Splice(buf, at, src) ==
    LET size == BufLen(buf)
        n    == Min(BufLen(src), size - at)
    IN  IF n <= 0 \/ at < 0 THEN buf
        ELSE Norm(Slice(buf, 0, at) \o Slice(src, 0, n) \o Slice(buf, at + n, size))

\* buf[i] = v : a store outside the buffer is dropped, the value is kept modulo 256
Store(buf, i, v) == Splice(buf, i, <<(<<v % 256, 1>>)>>)

\* source.copy(target, targetStart, sourceStart, sourceEnd): as many octets as
\* the source range holds and the target has room for, with memmove semantics
Copy(source, target, targetStart, sourceStart, sourceEnd) ==
    Splice(target, targetStart, Slice(source, sourceStart, sourceEnd))

\* the octets of the buffer as a sequence (small buffers only)
RECURSIVE ToSeq(_)
ToSeq(buf) ==
    IF buf = <<>> THEN <<>>
    ELSE IF buf[1][2] = 1 THEN <<buf[1][1]>> \o ToSeq(Tail(buf))
    ELSE <<buf[1][1]>> \o ToSeq(<<(<<buf[1][1], buf[1][2] - 1>>)>> \o Tail(buf))

(***************************************************************************)
(* JavaScript values at the typed entry points: <<kind, payload>>.         *)
(*   "int"  an integer-valued number, payload its value <<hi, lo>>         *)
(*   "float" a number with a fraction, payload its floor                   *)
(*   "nan"  NaN          "boolean" payload 0 or 1     "undefined"          *)
(*   "string" payload the code points   "buffer" payload the octets        *)
(*   "array" payload the elements       "object" a plain object            *)
(*   "encoding" a string that names an encoding, payload the name          *)
(***************************************************************************)
JsInt(n) == <<"int", NumOf(n)>>

JsNaN == <<"nan", 0>>

JsStr(s) == <<"string", s>>

JsBuf(b) == <<"buffer", b>>

Undefined == <<"undefined", 0>>

TypeOf(x) ==
    IF x[1] \in {"int", "float", "nan"} THEN "number"
    ELSE IF x[1] = "encoding" THEN "string"
    ELSE IF x[1] \in {"buffer", "array"} THEN "object"
    ELSE x[1]

\* a default parameter: the default replaces undefined only
Default(x, d) == IF x[1] = "undefined" THEN JsInt(d) ELSE x

\* the octet a Uint8Array keeps of a stored value: ToNumber, then modulo 256
\* (NaN, undefined and text that is no number store 0)
Uint8Of(x) ==
    IF x[1] \in {"int", "float"} THEN NumLowByte(x[2])
    ELSE IF x[1] = "boolean" THEN x[2]
    ELSE 0

\* x <= k for a JavaScript number x (false for NaN)
JsLeq(x, k) ==
    IF x[1] = "int" THEN ~NumLess(NumOf(k), x[2])
    ELSE IF x[1] = "float" THEN NumLess(x[2], NumOf(k))
    ELSE FALSE

\* Buffer.byteLength(s) and buf.write(s): UTF-8
Utf8Char(c) ==
    IF c < 128 THEN <<c>>
    ELSE IF c < 2048 THEN <<192 + (c \div 64), 128 + (c % 64)>>
    ELSE <<224 + (c \div 4096), 128 + ((c \div 64) % 64), 128 + (c % 64)>>

RECURSIVE Utf8(_)
Utf8(s) == IF s = <<>> THEN <<>> ELSE Utf8Char(s[1]) \o Utf8(Tail(s))

(***************************************************************************)
(* Writer.  A call returns [w |-> the Writer after it, err |-> the error   *)
(* it threw, or "none"].                                                   *)
(***************************************************************************)
Ok(x) == [w |-> x, err |-> "none"]

Throw(x, e) == [w |-> x, err |-> e]

\* the rest of a method after a call that may have thrown
Then(res, F(_)) == IF res.err # "none" THEN res ELSE F(res.w)

NewWriter(size, growthFactor) ==
    [buf |-> Alloc(size), size |-> size, offset |-> 0,
     growthFactor |-> growthFactor, seq |-> <<>>]

ensure(x, len) ==
    IF x.size - x.offset < len
    THEN LET sz0 == x.size * x.growthFactor
             sz  == IF sz0 - x.offset < len THEN sz0 + len ELSE sz0
         IN  [x EXCEPT !.buf = Copy(x.buf, Alloc(sz), 0, 0, x.offset),
                       !.size = sz]
    ELSE x

\* this._buf[this._offset++] = v
Put(x, v) == [x EXCEPT !.buf = Store(x.buf, x.offset, v), !.offset = x.offset + 1]

RECURSIVE PutAll(_, _)
PutAll(x, bytes) == IF bytes = <<>> THEN x ELSE PutAll(Put(x, bytes[1]), Tail(bytes))

bufferOf(x) ==
    IF Len(x.seq) # 0 THEN [err |-> "InvalidAsn1Error", val |-> <<>>]
    ELSE [err |-> "none", val |-> Slice(x.buf, 0, x.offset)]

writeByte(x, b) ==
    IF TypeOf(b) # "number" THEN Throw(x, "TypeError")
    ELSE Ok(Put(ensure(x, 1), Uint8Of(b)))

\* IntBytes with the loop's upper test off by one (i > 0x80)
RECURSIVE IntBytesUpperOffByOne(_)
IntBytesUpperOffByOne(i) ==
    IF NumLess(i, NumOf(-128)) \/ NumLess(NumOf(128), i)
    THEN <<NumLowByte(i)>> \o IntBytesUpperOffByOne(NumFloorDiv256(i))
    ELSE <<NumLowByte(i)>>

\* the octets writeInt pushes, least significant first
RECURSIVE IntBytes(_)
IntBytes(i) ==
    IF NumLess(i, NumOf(-128)) \/ ~NumLess(i, NumOf(128))
    THEN <<NumLowByte(i)>> \o IntBytes(NumFloorDiv256(i))
    ELSE <<NumLowByte(i)>>

RECURSIVE Reverse(_)
Reverse(s) == IF s = <<>> THEN <<>> ELSE Reverse(Tail(s)) \o <<s[1]>>

writeInt(x, i, tag) ==
    IF i[1] # "int" THEN Throw(x, "TypeError")
    ELSE LET bytes == IntBytes(i[2])
             x1 == ensure(x, 2 + Len(bytes))
             x2 == Put(x1, Uint8Of(Default(tag, Integer)))
             x3 == Put(x2, Len(bytes))
         IN  Ok(PutAll(x3, Reverse(bytes)))

writeNull(x) ==
    Then(writeByte(x, JsInt(Null)), LAMBDA x1 : writeByte(x1, JsInt(0)))

writeEnumeration(x, i, tag) ==
    IF TypeOf(i) # "number" THEN Throw(x, "TypeError")
    ELSE writeInt(x, i, Default(tag, Enumeration))

writeBoolean(x, b, tag) ==
    IF TypeOf(b) # "boolean" THEN Throw(x, "TypeError")
    ELSE LET x1 == ensure(x, 3)
             x2 == Put(x1, Uint8Of(Default(tag, Boolean)))
             x3 == Put(x2, 1)
         IN  Ok(Put(x3, IF b[2] = 1 THEN 255 ELSE 0))

\* writeLength with the short form's limit off by one (len <= 0x80)
writeLengthShortOffByOne(x, len) ==
    IF TypeOf(len) # "number" THEN Throw(x, "TypeError")
    ELSE LET x1 == ensure(x, 4)
         IN  IF JsLeq(len, ShortFormMax + 1) THEN Ok(Put(x1, Uint8Of(len)))
             ELSE IF JsLeq(len, OneOctetMax)
             THEN Ok(PutAll(x1, <<129, Uint8Of(len)>>))
             ELSE IF JsLeq(len, TwoOctetMax)
             THEN Ok(PutAll(x1, <<130, NumToInt(len[2]) \div 256, Uint8Of(len)>>))
             ELSE IF JsLeq(len, ThreeOctetMax)
             THEN Ok(PutAll(x1, <<131, NumToInt(len[2]) \div 65536,
                                  NumToInt(len[2]) \div 256, Uint8Of(len)>>))
             ELSE Throw(x1, "InvalidAsn1Error")

writeLength(x, len) ==
    IF TypeOf(len) # "number" THEN Throw(x, "TypeError")
    ELSE LET x1 == ensure(x, 4)
         IN  IF JsLeq(len, ShortFormMax) THEN Ok(Put(x1, Uint8Of(len)))
             ELSE IF JsLeq(len, OneOctetMax)
             THEN Ok(PutAll(x1, <<129, Uint8Of(len)>>))
             ELSE IF JsLeq(len, TwoOctetMax)
             THEN Ok(PutAll(x1, <<130, NumToInt(len[2]) \div 256, Uint8Of(len)>>))
             ELSE IF JsLeq(len, ThreeOctetMax)
             THEN Ok(PutAll(x1, <<131, NumToInt(len[2]) \div 65536,
                                  NumToInt(len[2]) \div 256, Uint8Of(len)>>))
             ELSE Throw(x1, "InvalidAsn1Error")

writeString(x, s, tag) ==
    IF TypeOf(s) # "string" THEN Throw(x, "TypeError")
    ELSE LET bytes == Utf8(s[2])
             len == Len(bytes)
         IN  Then(writeByte(x, Default(tag, OctetString)), LAMBDA x1 :
             Then(writeLength(x1, JsInt(len)), LAMBDA x2 :
                 IF len # 0
                 THEN LET x3 == ensure(x2, len)
                      IN  Ok([x3 EXCEPT !.buf = Splice(x3.buf, x3.offset, FromSeq(bytes)),
                                        !.offset = x3.offset + len])
                 ELSE Ok(x2)))

writeBuffer(x, buf, tag) ==
    IF buf[1] # "buffer" THEN Throw(x, "TypeError")
    ELSE LET len == BufLen(buf[2])
             head == IF TypeOf(tag) = "number"
                     THEN Then(writeByte(x, tag), LAMBDA x1 : writeLength(x1, JsInt(len)))
                     ELSE Ok(x)
         IN  Then(head, LAMBDA x2 :
                 IF len > 0
                 THEN LET x3 == ensure(x2, len)
                      IN  Ok([x3 EXCEPT !.buf = Copy(buf[2], x3.buf, x3.offset, 0, len),
                                        !.offset = x3.offset + len])
                 ELSE Ok(x2))

\* what for (let s of strings) visits: the elements of an array, the characters
\* of a string
Elements(strings) ==
    IF strings[1] = "array" THEN strings[2]
    ELSE [k \in 1 .. Len(strings[2]) |-> JsStr(<<strings[2][k]>>)]

RECURSIVE writeEach(_, _, _)
writeEach(x, elems, tag) ==
    IF elems = <<>> THEN Ok(x)
    ELSE Then(writeString(x, elems[1], tag), LAMBDA x1 : writeEach(x1, Tail(elems), tag))

writeStringArray(x, strings, tag) ==
    IF strings[1] \notin {"array", "string"} THEN Throw(x, "TypeError")
    ELSE writeEach(x, Elements(strings), Default(tag, OctetString))

\* s.split('.')
RECURSIVE SplitDots(_, _)
SplitDots(s, cur) ==
    IF s = <<>> THEN <<cur>>
    ELSE IF s[1] = 46 THEN <<cur>> \o SplitDots(Tail(s), <<>>)
    ELSE SplitDots(Tail(s), Append(cur, s[1]))

IsDigits(d) == d # <<>> /\ \A k \in 1 .. Len(d) : d[k] \in 48 .. 57

\* /^([0-9]+\.){0,}[0-9]+$/.test(s)
IsOidString(s) == \A k \in 1 .. Len(SplitDots(s, <<>>)) : IsDigits(SplitDots(s, <<>>)[k])

\* parseInt(d, 10) of a string of decimal digits
RECURSIVE ParseDigits(_, _)
ParseDigits(d, acc) ==
    IF d = <<>> THEN acc ELSE ParseDigits(Tail(d), acc * 10 + (d[1] - 48))

parseInt(d) == ParseDigits(d, 0)

\* (x | 0x80) & 0xFF
Or128(x) == IF (x \div 128) % 2 = 1 THEN x % 256 ELSE (x + 128) % 256

\* the octets encodeOctet pushes for one arc, 0 <= octet < 2^31
encodeOctet(octet) ==
    IF octet < 128 THEN <<octet>>
    ELSE IF octet < 16384 THEN <<(octet \div 128) + 128, octet % 128>>
    ELSE IF octet < 2097152
    THEN <<(octet \div 16384) + 128, Or128(octet \div 128), octet % 128>>
    ELSE IF octet < 268435456
    THEN <<(octet \div 2097152) + 128, Or128(octet \div 16384),
           Or128(octet \div 128), octet % 128>>
    ELSE <<Or128(octet \div 268435456), Or128(octet \div 2097152),
           Or128(octet \div 16384), Or128(octet \div 128), octet % 128>>

RECURSIVE encodeArcs(_)
encodeArcs(tmp) ==
    IF tmp = <<>> THEN <<>>
    ELSE encodeOctet(parseInt(tmp[1])) \o encodeArcs(Tail(tmp))

RECURSIVE writeBytes(_, _)
writeBytes(x, bytes) ==
    IF bytes = <<>> THEN Ok(x)
    ELSE Then(writeByte(x, JsInt(bytes[1])), LAMBDA x1 : writeBytes(x1, Tail(bytes)))

writeOID(x, s, tag) ==
    IF TypeOf(s) # "string" THEN Throw(x, "TypeError")
    ELSE IF ~IsOidString(s[2]) THEN Throw(x, "Error")
    ELSE LET tmp == SplitDots(s[2], <<>>)
             \* parseInt(tmp[0]) * 40 + parseInt(tmp[1]); tmp[1] may be undefined
             first == IF Len(tmp) < 2 THEN JsNaN
                      ELSE <<"int", NumPlus(NumTimes(NumOf(parseInt(tmp[1])), 40),
                                            NumOf(parseInt(tmp[2])))>>
             rest == encodeArcs(SubSeq(tmp, 3, Len(tmp)))
             x1 == ensure(x, 2 + 1 + Len(rest))
         IN  Then(writeByte(x1, Default(tag, OID)), LAMBDA x2 :
             Then(writeLength(x2, JsInt(1 + Len(rest))), LAMBDA x3 :
             Then(writeByte(x3, first), LAMBDA x4 : writeBytes(x4, rest))))

startSequence(x, tag) ==
    Then(writeByte(x, Default(tag, Sequence + Constructor)), LAMBDA x1 :
        LET x2 == ensure([x1 EXCEPT !.seq = Append(x1.seq, x1.offset)], 3)
        IN  Ok([x2 EXCEPT !.offset = x2.offset + 3]))

shift(x, start, len, by) ==
    [x EXCEPT !.buf = Copy(x.buf, x.buf, start + by, start, start + len),
              !.offset = x.offset + by]

RECURSIVE StoreAll(_, _, _)
StoreAll(buf, at, bytes) ==
    IF bytes = <<>> THEN buf
    ELSE StoreAll(Store(buf, at, bytes[1]), at + 1, Tail(bytes))

endSequence(x) ==
    IF x.seq = <<>>
    \* pop() of an empty stack is undefined, so len is NaN and no branch matches
    THEN Throw(x, "InvalidAsn1Error")
    ELSE LET seq == x.seq[Len(x.seq)]
             x1 == [x EXCEPT !.seq = SubSeq(x.seq, 1, Len(x.seq) - 1)]
             start == seq + 3
             len == x.offset - start
         IN  IF len <= ShortFormMax
             THEN LET x2 == shift(x1, start, len, -2)
                  IN  Ok([x2 EXCEPT !.buf = Store(x2.buf, seq, len)])
             ELSE IF len <= OneOctetMax
             THEN LET x2 == shift(x1, start, len, -1)
                  IN  Ok([x2 EXCEPT !.buf = StoreAll(x2.buf, seq, <<129, len>>)])
             ELSE IF len <= TwoOctetMax
             THEN Ok([x1 EXCEPT !.buf = StoreAll(x1.buf, seq,
                                            <<130, len \div 256, len>>)])
             ELSE IF len <= ThreeOctetMax
             THEN LET x2 == shift(x1, start, len, 1)
                  IN  Ok([x2 EXCEPT !.buf = StoreAll(x2.buf, seq,
                              <<131, len \div 65536, len \div 256, len>>)])
             ELSE Throw(x1, "InvalidAsn1Error")

(***************************************************************************)
(* Reader.  A call returns [r |-> the Reader after it, ret |-> what it     *)
(* returned]: <<"null", 0>>, <<"throw", error>>, or a value.               *)
(***************************************************************************)
NullRet == <<"null", 0>>

Thrown(e) == <<"throw", e>>

JsTrue == <<"boolean", 1>>

\* the string 'latin1', an encoding name
Latin1 == <<"encoding", "latin1">>

NewReader(data) == [buf |-> data, size |-> BufLen(data), len |-> NumOf(0), offset |-> 0]

readByte(x, peek) ==
    IF x.size - x.offset < 1 THEN [r |-> x, ret |-> NullRet]
    ELSE [r |-> IF peek THEN x ELSE [x EXCEPT !.offset = x.offset + 1],
          ret |-> JsInt(ByteAnd255(x.buf, x.offset))]

peek(x) == readByte(x, TRUE)

\* the loop of readLength: n octets from offset, most significant first
RECURSIVE lengthOctets(_, _, _, _)
lengthOctets(buf, offset, n, acc) ==
    IF n = 0 THEN acc
    ELSE lengthOctets(buf, offset + 1, n - 1, NumShiftAdd(acc, ByteAnd255(buf, offset)))

\* readLengthAt without the test that the long form's octets are all there
readLengthAtUnchecked(x, offset) ==
    IF offset >= x.size THEN [r |-> x, ret |-> NullRet]
    ELSE LET lenB == ByteAnd255(x.buf, offset)
             o == offset + 1
         IN  IF lenB >= 128
             THEN IF lenB % 128 = 0
                  THEN [r |-> x, ret |-> Thrown("InvalidAsn1Error")]
                  ELSE [r |-> [x EXCEPT !.len = lengthOctets(x.buf, o, lenB % 128, NumOf(0))],
                        ret |-> JsInt(o + (lenB % 128))]
             ELSE [r |-> [x EXCEPT !.len = NumOf(lenB)], ret |-> JsInt(o)]

\* readLength(offset) with the offset given
readLengthAt(x, offset) ==
    IF offset >= x.size THEN [r |-> x, ret |-> NullRet]
    ELSE LET lenB == ByteAnd255(x.buf, offset)
             o == offset + 1
         IN  IF lenB >= 128
             THEN IF lenB % 128 = 0
                  THEN [r |-> x, ret |-> Thrown("InvalidAsn1Error")]
                  ELSE IF x.size - o < lenB % 128 THEN [r |-> x, ret |-> NullRet]
                  ELSE [r |-> [x EXCEPT !.len = lengthOctets(x.buf, o, lenB % 128, NumOf(0))],
                        ret |-> JsInt(o + (lenB % 128))]
             ELSE [r |-> [x EXCEPT !.len = NumOf(lenB)], ret |-> JsInt(o)]

\* readLength() : the offset defaults to the cursor
readLength(x) == readLengthAt(x, x.offset)

\* tag !== b for a tag that is given
TagDiffers(tag, b) == tag # b

readSequence(x, tag) ==
    LET seq == peek(x)
    IN  IF seq.ret = NullRet THEN seq
        ELSE IF tag[1] # "undefined" /\ TagDiffers(tag, seq.ret)
        THEN [r |-> x, ret |-> Thrown("InvalidAsn1Error")]
        ELSE LET o == readLengthAt(x, x.offset + 1)
             IN  IF o.ret[1] # "int" THEN o
                 ELSE [r |-> [o.r EXCEPT !.offset = NumToInt(o.ret[2])], ret |-> seq.ret]

\* the payload of an integer: readInt8, then value * 256 + octet, n >= 1
RECURSIVE intValue(_, _, _, _)
intValue(buf, offset, n, value) ==
    IF n = 0 THEN value
    ELSE intValue(buf, offset + 1, n - 1, NumShiftAdd(value, ByteAt(buf, offset)))

readInt8(buf, offset) ==
    IF ByteAt(buf, offset) >= 128 THEN ByteAt(buf, offset) - 256 ELSE ByteAt(buf, offset)

\* readTag without the test that the declared payload is all there
readTagNoPayloadCheck(x, tag) ==
    LET b == peek(x)
    IN  IF b.ret = NullRet THEN b
        ELSE IF tag[1] # "undefined" /\ TagDiffers(tag, b.ret)
        THEN [r |-> x, ret |-> Thrown("InvalidAsn1Error")]
        ELSE LET o == readLengthAt(x, x.offset + 1)
             IN  IF o.ret[1] # "int" THEN o
                 ELSE IF o.r.len = NumOf(0)
                 THEN [r |-> o.r, ret |-> Thrown("InvalidAsn1Error")]
                 ELSE LET at == NumToInt(o.ret[2])
                          n == NumToInt(o.r.len)
                      IN  IF ByteAt(x.buf, at) = -1
                          \* readInt8 outside the buffer
                          THEN [r |-> [o.r EXCEPT !.offset = at], ret |-> Thrown("RangeError")]
                          ELSE LET value == intValue(x.buf, at + 1, n - 1,
                                                     NumOf(readInt8(x.buf, at)))
                               IN  [r |-> [o.r EXCEPT !.offset = at + n],
                                    ret |-> IF NumIsSafe(value) THEN <<"int", value>>
                                            ELSE Thrown("InvalidAsn1Error")]

readTag(x, tag) ==
    LET b == peek(x)
    IN  IF b.ret = NullRet THEN b
        ELSE IF tag[1] # "undefined" /\ TagDiffers(tag, b.ret)
        THEN [r |-> x, ret |-> Thrown("InvalidAsn1Error")]
        ELSE LET o == readLengthAt(x, x.offset + 1)
             IN  IF o.ret[1] # "int" THEN o
                 ELSE IF o.r.len = NumOf(0)
                 THEN [r |-> o.r, ret |-> Thrown("InvalidAsn1Error")]
                 ELSE IF NumLess(NumOf(x.size - NumToInt(o.ret[2])), o.r.len)
                 THEN [r |-> o.r, ret |-> NullRet]
                 ELSE LET at == NumToInt(o.ret[2])
                          n == NumToInt(o.r.len)
                      IN  IF ByteAt(x.buf, at) = -1
                          \* readInt8 outside the buffer
                          THEN [r |-> [o.r EXCEPT !.offset = at], ret |-> Thrown("RangeError")]
                          ELSE LET value == intValue(x.buf, at + 1, n - 1,
                                                     NumOf(readInt8(x.buf, at)))
                               IN  [r |-> [o.r EXCEPT !.offset = at + n],
                                    ret |-> IF NumIsSafe(value) THEN <<"int", value>>
                                            ELSE Thrown("InvalidAsn1Error")]

readInt(x, tag) == readTag(x, tag)

readBoolean(x, tag) ==
    LET t == readTag(x, Default(tag, Boolean))
    IN  IF t.ret[1] = "throw" THEN t
        ELSE [r |-> t.r, ret |-> <<"boolean", IF t.ret = JsInt(0) THEN 0 ELSE 1>>]

readEnumeration(x, tag) == readTag(x, Default(tag, Enumeration))

readBuffer(x, tag) ==
    LET b == peek(x)
    IN  IF b.ret = NullRet THEN b
        ELSE IF TagDiffers(Default(tag, OctetString), b.ret)
        THEN [r |-> x, ret |-> Thrown("InvalidAsn1Error")]
        ELSE LET o == readLengthAt(x, x.offset + 1)
             IN  IF o.ret[1] # "int" THEN o
                 ELSE IF NumLess(NumOf(x.size - NumToInt(o.ret[2])), o.r.len)
                 THEN [r |-> o.r, ret |-> NullRet]
                 ELSE LET at == NumToInt(o.ret[2])
                          n == NumToInt(o.r.len)
                      IN  [r |-> [o.r EXCEPT !.offset = at + n],
                           ret |-> JsBuf(Slice(x.buf, at, at + n))]

\* buf.toString('utf-8'): one- and two-octet sequences decode, any other octet
\* becomes U+FFFD; buf.toString('latin1'): each octet is its code point
RECURSIVE DecodeUtf8(_)
DecodeUtf8(b) ==
    IF b = <<>> THEN <<>>
    ELSE IF b[1] < 128 THEN <<b[1]>> \o DecodeUtf8(Tail(b))
    ELSE IF b[1] \in 194 .. 223 /\ Len(b) >= 2 /\ b[2] \in 128 .. 191
    THEN <<(b[1] - 192) * 64 + (b[2] - 128)>> \o DecodeUtf8(SubSeq(b, 3, Len(b)))
    ELSE <<65533>> \o DecodeUtf8(Tail(b))

bufToString(buf, encoding) ==
    IF encoding = Latin1 THEN ToSeq(buf) ELSE DecodeUtf8(ToSeq(buf))

\* a falsy tag: undefined, 0, NaN, ''
Falsy(tag) == tag[1] \in {"undefined", "nan"} \/ tag = JsInt(0) \/ tag = JsStr(<<>>)

readString(x, tag, encoding) ==
    LET swap == TypeOf(tag) = "string" /\ encoding[1] = "undefined"
        enc == IF swap THEN tag ELSE encoding
        t == IF swap THEN Undefined ELSE tag
        buf == readBuffer(x, IF Falsy(t) THEN JsInt(OctetString) ELSE t)
    IN  IF buf.ret[1] # "buffer" \/ enc = JsTrue THEN buf
        ELSE [r |-> buf.r, ret |-> JsStr(bufToString(buf.ret[2], enc))]

\* value <<= 7 on a 32-bit signed value
Shl7(v) ==
    LET m == v % (2 * Limb)
    IN  IF m < Limb THEN m * 128 ELSE (m - 2 * Limb) * 128

\* value >>> 0 : the 32-bit value read as unsigned
Unsigned(v) == <<(v \div Limb) % 256, v % Limb>>

\* the arcs readOID collects from the octets
RECURSIVE oidValues(_, _)
oidValues(b, value) ==
    IF b = <<>> THEN <<>>
    ELSE LET v == Shl7(value) + (b[1] % 128)
         IN  IF b[1] < 128 THEN <<Unsigned(v)>> \o oidValues(Tail(b), 0)
             ELSE oidValues(Tail(b), v)

\* String(n) of a number n >= 0
RECURSIVE Decimal(_)
Decimal(n) ==
    IF n[1] = 0 /\ n[2] < 10 THEN <<48 + n[2]>>
    ELSE Decimal(NumDiv(n, 10)) \o <<48 + NumMod(n, 10)>>

\* values.join('.') of the decimal strings
RECURSIVE joinDots(_)
joinDots(strs) ==
    IF strs = <<>> THEN <<>>
    ELSE IF Len(strs) = 1 THEN strs[1]
    ELSE strs[1] \o <<46>> \o joinDots(Tail(strs))

NaNText == <<78, 97, 78>>

readOID(x, tag) ==
    LET b == readString(x, Default(tag, OID), JsTrue)
    IN  IF b.ret[1] # "buffer" THEN b
        ELSE LET values == oidValues(ToSeq(b.ret[2]), 0)
                 \* values.shift() of an empty list is undefined: NaN and 0
                 head == IF values = <<>> THEN <<Decimal(NumOf(0)), NaNText>>
                         ELSE <<Decimal(NumDiv(values[1], 40)),
                                Decimal(NumOf(NumMod(values[1], 40)))>>
                 rest == [k \in 1 .. Len(values) - 1 |-> Decimal(values[k + 1])]
             IN  [r |-> b.r, ret |-> JsStr(joinDots(head \o rest))]

\* the 8 binary digits of an octet, most significant first
Bits8(b) == [k \in 1 .. 8 |-> 48 + ((b \div (2 ^ (8 - k))) % 2)]

RECURSIVE hexBits(_)
hexBits(octets) == IF octets = <<>> THEN <<>> ELSE Bits8(octets[1]) \o hexBits(Tail(octets))

RECURSIVE stripZeros(_)
stripZeros(d) == IF Len(d) > 1 /\ d[1] = 48 THEN stripZeros(Tail(d)) ELSE d

\* parseInt(octets.toString('hex'), 16).toString(2): NaN for no octet, else the
\* binary numeral of the value (exact for the at most 6 octets modelled)
toBinary(octets) == IF octets = <<>> THEN NaNText ELSE stripZeros(hexBits(octets))

\* s.padStart(n, '0')
padStart(d, n) == [k \in 1 .. Max(0, n - Len(d)) |-> 48] \o d

readBitString(x, tag) ==
    LET b == peek(x)
    IN  IF b.ret = NullRet THEN b
        ELSE IF TagDiffers(Default(tag, BitString), b.ret)
        THEN [r |-> x, ret |-> Thrown("InvalidAsn1Error")]
        ELSE LET o == readLengthAt(x, x.offset + 1)
             IN  IF o.ret[1] # "int" THEN o
                 ELSE IF NumLess(NumOf(x.size - NumToInt(o.ret[2])), o.r.len)
                 THEN [r |-> o.r, ret |-> NullRet]
                 ELSE IF o.r.len = NumOf(0)
                 THEN [r |-> [o.r EXCEPT !.offset = NumToInt(o.ret[2])], ret |-> JsStr(<<>>)]
                 ELSE LET at == NumToInt(o.ret[2])
                          n == NumToInt(o.r.len)
                          ignoredBits == ByteAt(x.buf, at)
                          bitStringOctets == ToSeq(Slice(x.buf, at + 1, at + n))
                          bitString == padStart(toBinary(bitStringOctets),
                                                Len(bitStringOctets) * 8)
                      IN  [r |-> [o.r EXCEPT !.offset = at + n],
                           ret |-> JsStr(SubSeq(bitString, 1, Len(bitString) - ignoredBits))]

(***************************************************************************)
(* History kept beside the program state: the Writer and the Reader before *)
(* the last call; for the Writer the number of calls made, the brackets    *)
(* opened and not closed by an endSequence that returned, and per open     *)
(* bracket its tag and the octets written in it since (frames[1] is what   *)
(* lies outside every bracket), a closed bracket being entered in the      *)
(* frame below as tag, minimal length field, content.                      *)
(***************************************************************************)
NoWriter == NewWriter(0, 1)

NoReader == NewReader(<<>>)

NoHistory ==
    [w |-> NoWriter, r |-> NoReader, open |-> 0, writes |-> 0, starts |-> 0,
     frames |-> <<[tag |-> 0, content |-> <<>>]>>]

ErrRet(e) == <<"err", e>>

(***************************************************************************)
(* SpecInt: writeInt(i) on a new Writer, then readInt on a Reader over     *)
(* the Writer's buffer.                                                    *)
(***************************************************************************)
IntSpread == 2

\* 2^e as a number, 0 <= e <= 54
Pow2(e) == IF e < 24 THEN <<0, 2 ^ e>> ELSE <<2 ^ (e - 24), 0>>

NumNeg(x) == IF x[2] = 0 THEN <<-x[1], 0>> ELSE <<-x[1] - 1, Limb - x[2]>>

IntEdges ==
    {NumOf(0)} \cup {Pow2(e) : e \in {7, 8, 15, 16, 23, 24, 31, 32, 39, 40, 47, 48, 53}}
               \cup {NumNeg(Pow2(e)) : e \in {7, 8, 15, 16, 23, 24, 31, 32, 39, 40, 47, 48, 53}}

IntInputs ==
    {i \in {NumPlus(e, NumOf(d)) : e \in IntEdges, d \in -IntSpread .. IntSpread} :
        NumIsSafe(i)}

IntTags == {Undefined, JsInt(Enumeration)}

IntInit ==
    /\ w = NewWriter(DefaultSize, DefaultGrowthFactor)
    /\ r = NoReader
    /\ op = "new"
    /\ ret = Undefined
    /\ arg \in [i : {<<"int", i>> : i \in IntInputs}, tag : IntTags]
    /\ pre = NoHistory

IntWrite ==
    /\ op = "new"
    /\ LET res == writeInt(w, arg.i, arg.tag)
       IN  /\ w' = res.w
           /\ ret' = ErrRet(res.err)
    /\ op' = "writeInt"
    /\ pre' = [pre EXCEPT !.w = w]
    /\ UNCHANGED <<r, arg>>

IntOpen ==
    /\ op = "writeInt"
    /\ bufferOf(w).err = "none"
    /\ r' = NewReader(bufferOf(w).val)
    /\ op' = "Reader"
    /\ UNCHANGED <<w, ret, arg, pre>>

IntRead ==
    /\ op = "Reader"
    /\ LET res == readInt(r, arg.tag)
       IN  /\ r' = res.r
           /\ ret' = res.ret
    /\ op' = "readInt"
    /\ pre' = [pre EXCEPT !.r = r]
    /\ UNCHANGED <<w, arg>>

IntNext == IntWrite \/ IntOpen \/ IntRead

SpecInt == IntInit /\ [][IntNext]_vars

\* -2^(8k-1) <= i < 2^(8k-1): i fits k octets of two's complement (every safe
\* integer fits 7)
Fits(i, k) ==
    k >= 7 \/ (~NumLess(i, NumNeg(Pow2(8 * k - 1))) /\ NumLess(i, Pow2(8 * k - 1)))

MinOctets(i) == CHOOSE k \in 1 .. 7 : Fits(i, k) /\ \A j \in 1 .. k - 1 : ~Fits(i, j)

\* C1: writeInt(i) emits the tag, one length octet n and n payload octets, n
\* being the least number of two's-complement octets that hold i (at least 1;
\* -1 is FF, 127 is one octet, 128 is 00 80, -129 is two octets), and readInt
\* over that output returns exactly i and ends past the value.
C1_IntRoundTrip ==
    /\ op \in {"writeInt", "Reader", "readInt"} =>
          /\ ret[1] = "err" => ret = ErrRet("none")
          /\ w.offset = 2 + MinOctets(arg.i[2])
          /\ ByteAt(w.buf, 0) = Uint8Of(Default(arg.tag, Integer))
          /\ ByteAt(w.buf, 1) = MinOctets(arg.i[2])
          /\ arg.i = JsInt(-1) => ToSeq(Slice(w.buf, 1, w.offset)) = <<1, 255>>
          /\ arg.i = JsInt(127) => ToSeq(Slice(w.buf, 1, w.offset)) = <<1, 127>>
          /\ arg.i = JsInt(128) => ToSeq(Slice(w.buf, 1, w.offset)) = <<2, 0, 128>>
          /\ arg.i = JsInt(-129) => ToSeq(Slice(w.buf, 1, w.offset)) = <<2, 255, 127>>
    /\ op = "readInt" => ret = arg.i /\ r.offset = r.size

\* a negative integer beyond 32 bits has made the round trip in 7 octets
C1_Witness ==
    /\ op = "readInt"
    /\ NumLess(arg.i[2], NumNeg(Pow2(48)))
    /\ r.size = 9
    /\ ret = arg.i

(***************************************************************************)
(* SpecLen: some octets, then writeLength(len); a Reader over the buffer   *)
(* reads past those octets and calls readLength().                         *)
(***************************************************************************)
LenSpread == 2

MaxLead == 2

LenEdges == {0, ShortFormMax, OneOctetMax, TwoOctetMax, ThreeOctetMax}

LenInputs ==
    {NumOf(e + d) : e \in LenEdges, d \in 0 .. LenSpread + 1}
        \cup {NumOf(e - d) : e \in LenEdges \ {0}, d \in 0 .. LenSpread}
        \cup {Pow2(31), Pow2(32), Pow2(53)}

LenSizes == {0, 1, DefaultSize}

LenInit ==
    /\ \E size \in LenSizes : w = NewWriter(size, DefaultGrowthFactor)
    /\ r = NoReader
    /\ op = "new"
    /\ ret = Undefined
    /\ arg \in [len : {<<"int", n>> : n \in LenInputs}, lead : 0 .. MaxLead]
    /\ pre = NoHistory

LenPrefix ==
    /\ op \in {"new", "writeByte"}
    /\ w.offset < arg.lead
    /\ LET res == writeByte(w, JsInt(Sequence + Constructor + w.offset))
       IN  /\ w' = res.w
           /\ ret' = ErrRet(res.err)
    /\ op' = "writeByte"
    /\ pre' = [pre EXCEPT !.w = w]
    /\ UNCHANGED <<r, arg>>

LenWrite ==
    /\ op \in {"new", "writeByte"}
    /\ w.offset = arg.lead
    /\ LET res == writeLength(w, arg.len)
       IN  /\ w' = res.w
           /\ ret' = ErrRet(res.err)
    /\ op' = "writeLength"
    /\ pre' = [pre EXCEPT !.w = w]
    /\ UNCHANGED <<r, arg>>

LenOpen ==
    /\ op = "writeLength"
    /\ ret = ErrRet("none")
    /\ bufferOf(w).err = "none"
    /\ r' = NewReader(bufferOf(w).val)
    /\ op' = "Reader"
    /\ UNCHANGED <<w, ret, arg, pre>>

LenSkip ==
    /\ op \in {"Reader", "readByte"}
    /\ r.offset < arg.lead
    /\ LET res == readByte(r, FALSE)
       IN  /\ r' = res.r
           /\ ret' = res.ret
    /\ op' = "readByte"
    /\ pre' = [pre EXCEPT !.r = r]
    /\ UNCHANGED <<w, arg>>

LenRead ==
    /\ op \in {"Reader", "readByte"}
    /\ r.offset = arg.lead
    /\ LET res == readLength(r)
       IN  /\ r' = res.r
           /\ ret' = res.ret
    /\ op' = "readLength"
    /\ pre' = [pre EXCEPT !.r = r]
    /\ UNCHANGED <<w, arg>>

LenNext == LenPrefix \/ LenWrite \/ LenOpen \/ LenSkip \/ LenRead

SpecLen == LenInit /\ [][LenNext]_vars

\* the minimal length field of n, 0 <= n <= 0xFFFFFF
LengthField(n) ==
    IF n <= 127 THEN <<n>>
    ELSE IF n <= 255 THEN <<129, n>>
    ELSE IF n <= 65535 THEN <<130, n \div 256, n % 256>>
    ELSE <<131, n \div 65536, (n \div 256) % 256, n % 256>>

\* C3: for 0 <= len <= 0xFFFFFF writeLength(len) appends the minimal length
\* field (len; 0x81 len; 0x82 and 2 octets; 0x83 and 3 octets, big-endian)
\* and readLength over it sets the Reader's length to len and returns the
\* offset just after the field, the Reader's offset unmoved; for
\* len > 0xFFFFFF writeLength throws InvalidAsn1Error and appends no octet.
C3_LengthField ==
    /\ op = "writeLength" /\ ~NumLess(NumOf(ThreeOctetMax), arg.len[2]) =>
          /\ ret = ErrRet("none")
          /\ ToSeq(Slice(w.buf, pre.w.offset, w.offset)) = LengthField(NumToInt(arg.len[2]))
          /\ Slice(w.buf, 0, pre.w.offset) = Slice(pre.w.buf, 0, pre.w.offset)
    /\ op = "writeLength" /\ NumLess(NumOf(ThreeOctetMax), arg.len[2]) =>
          /\ ret = ErrRet("InvalidAsn1Error")
          /\ w.offset = pre.w.offset
          /\ Slice(w.buf, 0, w.offset) = Slice(pre.w.buf, 0, pre.w.offset)
          /\ w.seq = pre.w.seq
    /\ op = "readLength" =>
          /\ r.len = arg.len[2]
          /\ ret = JsInt(arg.lead + Len(LengthField(NumToInt(arg.len[2]))))
          /\ r.offset = pre.r.offset
          /\ r.offset = arg.lead
          /\ r.buf = pre.r.buf

\* a length of 65536 behind two octets has been written in the 4-octet form
\* and read back
C3_Witness ==
    /\ op = "readLength"
    /\ arg.len = JsInt(TwoOctetMax + 1)
    /\ arg.lead = 2
    /\ ToSeq(r.buf) = <<48, 49, 131, 1, 0, 0>>
    /\ r.len = NumOf(65536)
    /\ ret = JsInt(6)

(***************************************************************************)
(* SpecOid: writeOID(s) on a new Writer, then readOID on a Reader over the *)
(* Writer's buffer.  The strings are dotted lists of 1 .. MaxArcs decimal  *)
(* numerals below 2^31, one of them written with a leading zero.           *)
(***************************************************************************)
MaxArcs == 3

ArcValues == {0, 1, 2, 3, 39, 40, 47, 48, 127, 128, 840, 999, 16383, 16384, 113549,
              2097151, 2097152, 268435455, 268435456, 2147483647}

ArcTexts == {Decimal(NumOf(n)) : n \in ArcValues} \cup {<<48, 49>>}

OidInputs ==
    UNION {{joinDots(a) : a \in [1 .. n -> ArcTexts]} : n \in 1 .. MaxArcs}

OidInit ==
    /\ w = NewWriter(DefaultSize, DefaultGrowthFactor)
    /\ r = NoReader
    /\ op = "new"
    /\ ret = Undefined
    /\ arg \in [s : {JsStr(s) : s \in OidInputs}]
    /\ pre = NoHistory

OidWrite ==
    /\ op = "new"
    /\ LET res == writeOID(w, arg.s, Undefined)
       IN  /\ w' = res.w
           /\ ret' = ErrRet(res.err)
    /\ op' = "writeOID"
    /\ pre' = [pre EXCEPT !.w = w]
    /\ UNCHANGED <<r, arg>>

OidOpen ==
    /\ op = "writeOID"
    /\ ret = ErrRet("none")
    /\ bufferOf(w).err = "none"
    /\ r' = NewReader(bufferOf(w).val)
    /\ op' = "Reader"
    /\ UNCHANGED <<w, ret, arg, pre>>

OidRead ==
    /\ op = "Reader"
    /\ LET res == readOID(r, Undefined)
       IN  /\ r' = res.r
           /\ ret' = res.ret
    /\ op' = "readOID"
    /\ pre' = [pre EXCEPT !.r = r]
    /\ UNCHANGED <<w, arg>>

OidNext == OidWrite \/ OidOpen \/ OidRead

SpecOid == OidInit /\ [][OidNext]_vars

\* C2: for every string s of the grammar writeOID accepts (one or more
\* decimal numerals separated by dots) with arcs within 32 bits, readOID over
\* the output of writeOID(s) returns exactly s.
C2_OidRoundTrip == op = "readOID" => ret = arg.s

\* the same for the strings with at least two arcs, arcs written without a
\* leading zero, a first arc of 0, 1 or 2 and a second arc below 40
OidWellFormed(s) ==
    LET tmp == SplitDots(s, <<>>)
    IN  /\ Len(tmp) >= 2
        /\ \A k \in 1 .. Len(tmp) : tmp[k] = Decimal(NumOf(parseInt(tmp[k])))
        /\ parseInt(tmp[1]) <= 2
        /\ parseInt(tmp[2]) < 40

OidRoundTripWellFormed == op = "readOID" /\ OidWellFormed(arg.s[2]) => ret = arg.s

(***************************************************************************)
(* SpecReader: a Reader over any buffer of at most MaxSize octets of       *)
(* ReaderBytes, or over one of the longer buffers of ReaderExtra, and any  *)
(* sequence of its operations.                                             *)
(***************************************************************************)
MaxSize == 3

ReaderBytes == {0, 1, 2, 128, 129}

\* longer buffers: length fields of 1, 2, 3 and 5 octets, a value followed by
\* another, bit strings, a 7-octet integer, an object identifier
ReaderLong ==
    {<<2, 133, 0, 0, 0, 0, 1, 3>>, <<2, 133, 1, 0, 0, 0, 0>>, <<2, 130, 0, 2, 128, 0>>,
     <<2, 131, 0, 0, 1, 255>>, <<2, 129, 3, 4, 240, 15>>, <<2, 2, 2, 130, 0, 1, 1>>,
     <<3, 2, 4, 240>>, <<2, 7, 32, 0, 0, 0, 0, 0, 0>>, <<2, 3, 42, 134, 72>>,
     <<4, 2, 195, 169, 1, 1, 255>>, <<48, 3, 2, 1, 5>>}

\* each of them cut at every point
ReaderExtra == UNION {{SubSeq(s, 1, k) : k \in 0 .. Len(s)} : s \in ReaderLong}

ReaderInputs ==
    UNION {[1 .. n -> ReaderBytes] : n \in 0 .. MaxSize} \cup ReaderExtra

ReaderTags == {Undefined, JsInt(Integer)}

ReaderStringArgs ==
    {<<Undefined, Undefined>>, <<JsInt(Integer), Undefined>>, <<JsInt(Integer), JsTrue>>,
     <<Latin1, Undefined>>, <<JsInt(Integer), Latin1>>}

ReaderInit ==
    /\ w = NoWriter
    /\ \E s \in ReaderInputs : r = NewReader(FromSeq(s))
    /\ op = "new"
    /\ ret = Undefined
    /\ arg = [tag |-> Undefined, encoding |-> Undefined]
    /\ pre = [NoHistory EXCEPT !.r = r]

\* what a call of the Reader leaves: its arguments, its result, the Reader
Returned(tag, encoding, res) ==
    /\ r' = res.r
    /\ ret' = res.ret
    /\ arg' = [tag |-> tag, encoding |-> encoding]
    /\ pre' = [pre EXCEPT !.r = r]
    /\ UNCHANGED w

ReadByte ==
    /\ op' = "readByte"
    /\ Returned(Undefined, Undefined, readByte(r, FALSE))

Peek ==
    /\ op' = "peek"
    /\ Returned(Undefined, Undefined, peek(r))

ReadLength ==
    /\ op' = "readLength"
    /\ Returned(Undefined, Undefined, readLength(r))

ReadSequence ==
    /\ op' = "readSequence"
    /\ \E tag \in ReaderTags : Returned(tag, Undefined, readSequence(r, tag))

ReadInt ==
    /\ op' = "readInt"
    /\ \E tag \in ReaderTags : Returned(tag, Undefined, readInt(r, tag))

ReadBoolean ==
    /\ op' = "readBoolean"
    /\ \E tag \in ReaderTags : Returned(tag, Undefined, readBoolean(r, tag))

ReadEnumeration ==
    /\ op' = "readEnumeration"
    /\ \E tag \in ReaderTags : Returned(tag, Undefined, readEnumeration(r, tag))

ReadBuffer ==
    /\ op' = "readBuffer"
    /\ \E tag \in ReaderTags : Returned(tag, Undefined, readBuffer(r, tag))

ReadString ==
    /\ op' = "readString"
    /\ \E a \in ReaderStringArgs : Returned(a[1], a[2], readString(r, a[1], a[2]))

ReadOID ==
    /\ op' = "readOID"
    /\ \E tag \in ReaderTags : Returned(tag, Undefined, readOID(r, tag))

ReadBitString ==
    /\ op' = "readBitString"
    /\ \E tag \in ReaderTags : Returned(tag, Undefined, readBitString(r, tag))

ReaderNext ==
    \/ ReadByte \/ Peek \/ ReadLength \/ ReadSequence \/ ReadInt \/ ReadBoolean
    \/ ReadEnumeration \/ ReadBuffer \/ ReadString \/ ReadOID \/ ReadBitString

SpecReader == ReaderInit /\ [][ReaderNext]_vars

\* the tag a call expects: the one given, else the call's default; readInt
\* and readSequence without a tag accept any (undefined)
Expected(name, a) ==
    IF name \in {"readInt", "readSequence"} THEN a.tag
    ELSE IF name = "readBoolean" THEN Default(a.tag, Boolean)
    ELSE IF name = "readEnumeration" THEN Default(a.tag, Enumeration)
    ELSE IF name = "readOID" THEN Default(a.tag, OID)
    ELSE IF name = "readBitString" THEN Default(a.tag, BitString)
    ELSE IF TypeOf(a.tag) = "string" THEN JsInt(OctetString)
    ELSE Default(a.tag, OctetString)

\* what is left of the buffer at the cursor of Reader x, read as a value with
\* tag t: the second octet says how long the length field is
Remaining(x) == x.size - x.offset

Marker(x) == ByteAt(x.buf, x.offset + 1)

HasTag(x, t) ==
    Remaining(x) >= 1 /\ (t[1] = "undefined" \/ JsInt(ByteAt(x.buf, x.offset)) = t)

NothingLeft(x) == Remaining(x) = 0

TagOnly(x, t) == HasTag(x, t) /\ Remaining(x) = 1

LengthCut(x, t) ==
    HasTag(x, t) /\ Remaining(x) >= 2 /\ Marker(x) > 128
                 /\ Remaining(x) - 2 < Marker(x) - 128

HeaderComplete(x, t) ==
    HasTag(x, t) /\ Remaining(x) >= 2 /\ Marker(x) # 128
                 /\ (Marker(x) > 128 => Remaining(x) - 2 >= Marker(x) - 128)

FieldOctets(x) == IF Marker(x) < 128 THEN 1 ELSE 1 + (Marker(x) - 128)

RECURSIVE BigEndian(_, _)
BigEndian(octets, acc) ==
    IF octets = <<>> THEN acc ELSE BigEndian(Tail(octets), NumShiftAdd(acc, octets[1]))

Declared(x) ==
    IF Marker(x) < 128 THEN NumOf(Marker(x))
    ELSE BigEndian(ToSeq(Slice(x.buf, x.offset + 2, x.offset + 1 + FieldOctets(x))),
                   NumOf(0))

PayloadCut(x, t) ==
    HeaderComplete(x, t) /\ NumLess(NumOf(Remaining(x) - 1 - FieldOctets(x)), Declared(x))

\* C7: when what is left at the cursor is a strict prefix of a value with the
\* expected tag (nothing, the tag alone, a long-form length field cut short,
\* or a whole header declaring more payload than is there), readByte,
\* readSequence, readBuffer, readString, readOID, readBitString, readInt and
\* readEnumeration return null where they would need an octet past the end,
\* and do not throw.
C7_TruncatedGivesNull ==
    LET x == pre.r
        t == Expected(op, arg)
    IN  /\ op = "readByte" /\ NothingLeft(x) => ret = NullRet
        /\ op = "readSequence" /\ (NothingLeft(x) \/ TagOnly(x, t) \/ LengthCut(x, t))
              => ret = NullRet
        /\ op \in {"readBuffer", "readString", "readOID", "readBitString", "readInt",
                   "readEnumeration"}
              /\ (NothingLeft(x) \/ TagOnly(x, t) \/ LengthCut(x, t) \/ PayloadCut(x, t))
              => ret = NullRet

\* readInt, past the first octet, has met a whole long-form header that
\* declares more payload than the buffer holds, and returned null
C7_Witness ==
    /\ op = "readInt"
    /\ pre.r.offset > 0
    /\ Marker(pre.r) > 128
    /\ PayloadCut(pre.r, Expected(op, arg))
    /\ ret = NullRet

\* C10: whatever the buffer holds and whatever a call returns or throws, the
\* Reader's offset stays within 0 .. size, never decreases, is unchanged by a
\* call that returns null, and the buffer's octets are never modified.
C10_OffsetForwardOnly ==
    /\ 0 <= r.offset /\ r.offset <= r.size
    /\ r.offset >= pre.r.offset
    /\ ret = NullRet => r.offset = pre.r.offset
    /\ r.buf = pre.r.buf
    /\ r.size = BufLen(r.buf)

\* readInt has thrown on a value outside the safe integers after moving the
\* offset past the 7 payload octets, to the end of the buffer
C10_Witness ==
    /\ op = "readInt"
    /\ ret = Thrown("InvalidAsn1Error")
    /\ pre.r.offset = 0
    /\ r.offset = 9
    /\ r.offset = r.size

\* the binary digits of the octets after the first payload octet, without
\* the last `ignored` ones
ExpectedBits(x) ==
    LET at == x.offset + 1 + FieldOctets(x)
        all == hexBits(ToSeq(Slice(x.buf, at + 1, at + NumToInt(Declared(x)))))
    IN  SubSeq(all, 1, Max(0, Len(all) - ByteAt(x.buf, at)))

\* C9: at a value with the expected tag, declared length L and the whole
\* payload present, readBitString returns the digits of the L - 1 octets after
\* the ignored-bits octet, most significant first, without the last
\* ignoredBits ones (max(0, 8 * (L - 1) - ignoredBits) characters, so the
\* empty string for L = 1), the empty string for L = 0, and leaves the offset
\* just past the value.
C9_BitString ==
    LET x == pre.r
        t == Expected(op, arg)
    IN  op = "readBitString" /\ HeaderComplete(x, t) /\ ~PayloadCut(x, t) =>
            /\ Declared(x) = NumOf(0) => ret = JsStr(<<>>)
            /\ Declared(x) # NumOf(0) => ret = JsStr(ExpectedBits(x))
            /\ r.offset = x.offset + 1 + FieldOctets(x) + NumToInt(Declared(x))

\* the same for values with at least one octet after the ignored-bits octet
BitStringWithOctets ==
    LET x == pre.r
        t == Expected(op, arg)
    IN  op = "readBitString" /\ HeaderComplete(x, t) /\ ~PayloadCut(x, t)
            /\ NumLess(NumOf(1), Declared(x))
            => /\ ret = JsStr(ExpectedBits(x))
               /\ r.offset = x.offset + 1 + FieldOctets(x) + NumToInt(Declared(x))

(***************************************************************************)
(* SpecWriter: a Writer of some size and growth factor and any sequence of *)
(* at most MaxWrites write calls and MaxStarts startSequence calls, with   *)
(* endSequence at any time.  Arguments of the wrong type are among the     *)
(* inputs.                                                                 *)
(***************************************************************************)
MaxWrites == 2

MaxStarts == 2

\* n octets: 1, then 2s, then 3
Payload(n) == Norm(<<(<<1, 1>>), (<<2, n - 2>>), (<<3, IF n >= 2 THEN 1 ELSE 0>>)>>)

\* a Writer that tag, three reserved octets and 65536 octets fill exactly
ExactFit == 1 + 3 + (TwoOctetMax + 1)

WriterOptions ==
    {<<DefaultSize, DefaultGrowthFactor>>, <<ExactFit, DefaultGrowthFactor>>, <<4, 1>>}

PayloadSizes == {ShortFormMax + 1, TwoOctetMax + 1, ThreeOctetMax + 1}

Text == JsStr(<<97, 233>>)

WriterInit ==
    /\ \E o \in WriterOptions : w = NewWriter(o[1], o[2])
    /\ r = NoReader
    /\ op = "new"
    /\ ret = Undefined
    /\ arg = Undefined
    /\ pre = [NoHistory EXCEPT !.w = w]

\* the octets a call appended
Appended(res) == Slice(res.w.buf, w.offset, res.w.offset)

\* what a write call leaves: its argument, the error it threw, the Writer
Written(a, res) ==
    /\ pre.writes < MaxWrites
    /\ w' = res.w
    /\ ret' = ErrRet(res.err)
    /\ arg' = a
    /\ pre' = [pre EXCEPT !.w = w, !.writes = pre.writes + 1,
                          !.frames[Len(pre.frames)].content =
                              Norm(pre.frames[Len(pre.frames)].content \o Appended(res))]
    /\ UNCHANGED r

WriteByte ==
    /\ op' = "writeByte"
    /\ \E b \in {JsInt(1), Text} : Written(b, writeByte(w, b))

WriteInt ==
    /\ op' = "writeInt"
    /\ \E i \in {JsInt(-129), <<"float", NumOf(1)>>} : Written(i, writeInt(w, i, Undefined))

WriteNull ==
    /\ op' = "writeNull"
    /\ Written(Undefined, writeNull(w))

WriteEnumeration ==
    /\ op' = "writeEnumeration"
    /\ \E i \in {JsInt(5), Text} : Written(i, writeEnumeration(w, i, Undefined))

WriteBoolean ==
    /\ op' = "writeBoolean"
    /\ \E b \in {JsTrue, JsInt(1)} : Written(b, writeBoolean(w, b, Undefined))

WriteString ==
    /\ op' = "writeString"
    /\ \E s \in {Text, JsInt(1)} : Written(s, writeString(w, s, Undefined))

WriteBuffer ==
    /\ op' = "writeBuffer"
    /\ \/ \E n \in PayloadSizes :
             Written(JsBuf(Payload(n)), writeBuffer(w, JsBuf(Payload(n)), Undefined))
       \/ Written(JsBuf(Payload(2)), writeBuffer(w, JsBuf(Payload(2)), JsInt(OctetString)))
       \/ Written(Text, writeBuffer(w, Text, Undefined))

WriteStringArray ==
    /\ op' = "writeStringArray"
    /\ \E strings \in {<<"array", <<Text, Text>>>>, <<"array", <<Text, JsInt(1)>>>>, JsInt(1)} :
          Written(strings, writeStringArray(w, strings, Undefined))

WriteOID ==
    /\ op' = "writeOID"
    /\ \E s \in {JsStr(<<49, 46, 50, 46, 56, 52, 48>>), JsStr(<<49, 46, 46, 50>>), JsInt(1)} :
          Written(s, writeOID(w, s, Undefined))

WriteLength ==
    /\ op' = "writeLength"
    /\ \E len \in {JsInt(ShortFormMax + 1), Text} :
          Written(len, writeLength(w, len))

StartSequence ==
    /\ op' = "startSequence"
    /\ pre.starts < MaxStarts
    /\ \E tag \in {Undefined, Text} :
          LET res == startSequence(w, tag)
          IN  /\ w' = res.w
              /\ ret' = ErrRet(res.err)
              /\ arg' = tag
              /\ pre' = IF res.err = "none"
                        THEN [pre EXCEPT !.w = w, !.starts = pre.starts + 1,
                                  !.open = pre.open + 1,
                                  !.frames = Append(pre.frames,
                                      [tag |-> Uint8Of(Default(tag, Sequence + Constructor)),
                                       content |-> <<>>])]
                        ELSE [pre EXCEPT !.w = w, !.starts = pre.starts + 1]
    /\ UNCHANGED r

\* the frames with the top one closed into the one below
Closed(frames) ==
    LET n == Len(frames)
        top == frames[n]
        enc == <<(<<top.tag, 1>>)>> \o Runs(LengthField(BufLen(top.content))) \o top.content
    IN  [SubSeq(frames, 1, n - 1) EXCEPT ![n - 1].content = Norm(frames[n - 1].content \o enc)]

EndSequence ==
    /\ op' = "endSequence"
    /\ op # "endSequence" \/ ret = ErrRet("none")
    /\ LET res == endSequence(w)
       IN  /\ w' = res.w
           /\ ret' = ErrRet(res.err)
           /\ pre' = IF res.err = "none" /\ pre.open > 0
                     THEN [pre EXCEPT !.w = w, !.open = pre.open - 1,
                                      !.frames = Closed(pre.frames)]
                     ELSE [pre EXCEPT !.w = w]
    /\ arg' = Undefined
    /\ UNCHANGED r

WriterNext ==
    \/ WriteByte \/ WriteInt \/ WriteNull \/ WriteEnumeration \/ WriteBoolean
    \/ WriteString \/ WriteBuffer \/ WriteStringArray \/ WriteOID \/ WriteLength
    \/ StartSequence \/ EndSequence

SpecWriter == WriterInit /\ [][WriterNext]_vars

\* the octets the Writer holds at indices 0 .. offset-1
Committed(x) == Slice(x.buf, 0, x.offset)

(* C4: the buffer accessor throws InvalidAsn1Error exactly while a bracket *)
(* opened by startSequence has not been closed by an endSequence that      *)
(* returned, and otherwise returns offset octets, those at indices 0 to    *)
(* offset-1.                                                               *)
C4_BufferAccessor ==
    /\ pre.open > 0 => bufferOf(w).err = "InvalidAsn1Error"
    /\ pre.open = 0 =>
          /\ bufferOf(w).err = "none"
          /\ bufferOf(w).val = Committed(w)
          /\ BufLen(bufferOf(w).val) = w.offset

(* C5: when endSequence returns and no bracket is left open, the committed *)
(* octets are those written outside the brackets, each bracket standing as *)
(* its tag, the minimal length field of its content, and its content, and  *)
(* the offset is their number.                                             *)
C5_EndSequenceContent ==
    (op = "endSequence" /\ ret = ErrRet("none") /\ pre.open = 0) =>
        /\ Committed(w) = pre.frames[1].content
        /\ w.offset = BufLen(pre.frames[1].content)

(* C6: the offset never exceeds the size of the backing buffer (a store at *)
(* or past the size moves the offset past it, so this is also the claim    *)
(* that no call stores outside the buffer).                                *)
C6_OffsetWithinSize == w.offset <= w.size

(* C8: a Writer call that throws TypeError leaves the committed octets,    *)
(* the offset and the open brackets as they were before the call.          *)
C8_FailedCallNoChange ==
    ret = ErrRet("TypeError") =>
        /\ w.offset = pre.w.offset
        /\ w.seq = pre.w.seq
        /\ Committed(w) = Committed(pre.w)

====
